---- MODULE Spec2Model ----
(***************************************************************************)
(* Model of sparkyRecipValidate.py: processFile (optional syntax precheck, *)
(* header, dispatch loop, close) and validateRecipients (one GET per field *)
(* of each CSV record, response handling, progress bar).                   *)
(***************************************************************************)
EXTENDS Integers, Sequences, FiniteSets, TLC

\* ------------------------------------------------------------------ bounds
\* Largest number of records (CSV rows) of an input file.
MaxRecords == 2

\* ------------------------------------------------------- program constants
\* time.sleep(10)
Cooldown == 10

\* fList, the fieldnames of the DictWriter
fList == <<"email", "valid", "result", "reason", "is_role", "is_disposable", "is_free", "did_you_mean">>

FieldSet == {fList[k] : k \in 1..Len(fList)}

\* ----------------------------------------------------------- input domains
Addrs == {"a@example.com", "x@y.com", "not-an-address", ""}

\* The records csv.reader can yield: a blank line gives no field, a line with
\* a comma gives two fields, a line holding "" gives one empty field.
Records == {<< >>} \cup {<<x>> : x \in Addrs} \cup {<<"a@example.com", "not-an-address">>}

Inputs == UNION {[1..n -> Records] : n \in 0..MaxRecords}

\* The values of --email: one or more addresses joined by commas.
EmailArgs == UNION {[1..n -> {"x@y.com", "z@y.com", "not-an-address"}] : n \in 1..MaxRecords}

\* FromEmail without the replace(',', '\n'): the argument stays one line, which
\* the reader yields as a single record of several fields.
FromEmail_NoReplace(parts) == <<parts>>

\* io.StringIO(args.email.replace(',', '\n')) as csv.reader yields it: every
\* comma-separated part becomes a line of its own, a record of one field.
FromEmail(parts) == [k \in 1..Len(parts) |-> <<parts[k]>>]

\* JSON values of a payload, tagged with their JSON type.
JTrue == <<"bool", "true">>
JNull == <<"null", "null">>
JStr(s) == <<"str", s>>

\* {"valid": true}
PayloadValid == [k \in {"valid"} |-> JTrue]

\* {"email": "other@example.com", "result": "valid", "reason": null, "delivery_confidence": "99"}
PayloadFull == [k \in {"email", "result", "reason", "delivery_confidence"} |->
                  CASE k = "email" -> JStr("other@example.com")
                    [] k = "result" -> JStr("valid")
                    [] k = "reason" -> JNull
                    [] OTHER -> JStr("99")]

NoPayload == [k \in {"none"} |-> JNull]

\* A response body: text that is not JSON, a JSON number, or a JSON object
\* with its top-level keys; `results` says whether the value under the key
\* "results" is a JSON object ("dict") or null.
Body(kind, keys, results, payload) ==
    [kind |-> kind, keys |-> keys, results |-> results, payload |-> payload]

BodyText == Body("text", {}, "none", NoPayload)
BodyNumber == Body("number", {}, "none", NoPayload)
BodyEmpty == Body("object", {}, "none", NoPayload)
BodyErrors == Body("object", {"errors"}, "none", NoPayload)
BodyNullResults == Body("object", {"results"}, "null", NoPayload)
BodyResults(p) == Body("object", {"results"}, "dict", p)

Bodies == {BodyText, BodyNumber, BodyEmpty, BodyErrors, BodyNullResults,
           BodyResults(PayloadValid), BodyResults(PayloadFull)}

\* What the remote API may answer.
Responses == ({200} \X Bodies) \cup ({503} \X {BodyErrors, BodyText})

\* ------------------------------------------------------------ pure helpers
\* validate_email(recip, check_deliverability=False): TRUE iff it returns
\* without raising EmailNotValidError.
isSyntacticallyValid(recip) == recip \in {"a@example.com", "x@y.com", "z@y.com"}

\* CountRow with the else branch of `if len(r) == 1` left out.
CountRow_IgnoresMalformed(r) ==
    IF Len(r) = 1
    THEN IF isSyntacticallyValid(r[1]) THEN <<1, 0>> ELSE <<0, 1>>
    ELSE <<0, 0>>

\* One iteration of the precheck loop: what it adds to <<count_ok, count_bad>>.
CountRow(r) ==
    IF Len(r) = 1
    THEN IF isSyntacticallyValid(r[1]) THEN <<1, 0>> ELSE <<0, 1>>
    ELSE <<0, 1>>

\* resp.json() returns (it raises on a body that is not JSON).
JsonDecodes(body) == body.kind # "text"

\* Python truth value of the decoded content.
Truthy(body) ==
    CASE body.kind = "object" -> body.keys # {}
      [] body.kind = "number" -> TRUE
      [] OTHER -> FALSE

\* Outcome without the `content and 'results' in content` test: the lookup
\* content['results'] raises on a body that lacks the key.
Outcome_NoShapeCheck(status, body) ==
    IF ~JsonDecodes(body) THEN "JSONDecodeError"
    ELSE IF status = 200
    THEN IF body.kind = "object" /\ "results" \in body.keys /\ body.results = "dict"
         THEN "row"
         ELSE "TypeError"
    ELSE "snooze"

\* What the body of the as_completed loop does with a response:
\*   "row"    fh.writerow(row), pbar.update(1)
\*   "diag"   eprint('Error: response', content), pbar.update(1)
\*   "snooze" print status, print notice, time.sleep(10)
\*   "JSONDecodeError", "TypeError": the exception leaves validateRecipients.
Outcome(status, body) ==
    IF ~JsonDecodes(body) THEN "JSONDecodeError"
    ELSE IF status = 200
    THEN IF ~Truthy(body) THEN "diag"
         ELSE IF body.kind = "number" THEN "TypeError"
         ELSE IF "results" \in body.keys
              THEN IF body.results = "dict" THEN "row" ELSE "TypeError"
              ELSE "diag"
    ELSE "snooze"

\* AttachEmail without the assignment row['email'] = i.
AttachEmail_Omitted(payload, i) == payload

\* AttachEmail as row.setdefault('email', i): an email of the payload is kept.
AttachEmail_KeepsPayloadEmail(payload, i) ==
    [k \in (DOMAIN payload) \cup {"email"} |-> IF k \in DOMAIN payload THEN payload[k] ELSE JStr(i)]

\* row = content['results']; row['email'] = i
AttachEmail(payload, i) ==
    [k \in (DOMAIN payload) \cup {"email"} |-> IF k = "email" THEN JStr(i) ELSE payload[k]]

\* How the csv writer renders a value: None as the empty string, the rest by str().
CsvStr(v) ==
    CASE v[1] = "null" -> ""
      [] v[1] = "bool" -> IF v[2] = "true" THEN "True" ELSE "False"
      [] OTHER -> v[2]

\* WriteRow writing the JSON text of each value instead of the csv rendering.
WriteRow_RawJson(row) ==
    [c \in FieldSet |-> IF c \in DOMAIN row THEN row[c][2] ELSE ""]

\* DictWriter(fieldnames=fList, restval='', extrasaction='ignore').writerow(row)
WriteRow(row) ==
    [c \in FieldSet |-> IF c \in DOMAIN row THEN CsvStr(row[c]) ELSE ""]

\* DictWriter.writeheader()
HeaderRow == [c \in FieldSet |-> c]

\* A line on the error channel (eprint).
Diag(kind, line, addr, body) == [kind |-> kind, line |-> line, addr |-> addr, body |-> body]

\* ------------------------------------------------------------------- state
VARIABLES
    email,          \* args.email as its comma-separated parts, << >> when not given
    infile,         \* the records of the input, as csv.reader yields them
    seekable,       \* infile.seekable()
    skip_precheck,  \* args.skip_precheck
    toStdout,       \* the --outfile is '-': fh writes to standard output
    pc,             \* where processFile is
    pos,            \* records read from infile since open or seek(0)
    cur,            \* `address`: the record of the current outer iteration
    fld,            \* fields of cur already iterated by the inner loop
    count_ok,       \* precheck counters; count_bound = FALSE while unassigned
    count_bad,
    count_bound,
    pbar,           \* tqdm: total and n
    out,            \* what fh has written to outfile
    stdout,         \* what has reached standard output, in order
    stderr,         \* what eprint has written
    reqs,           \* every session.get issued, with the response it received
    slept,          \* time spent in time.sleep
    closed,         \* infile and outfile are closed
    err             \* the exception that ended the run, "" if none

vars == <<email, infile, seekable, skip_precheck, toStdout, pc, pos, cur, fld, count_ok,
          count_bad, count_bound, pbar, out, stdout, stderr, reqs, slept, closed, err>>

Init ==
    /\ \/ /\ email = << >>
          /\ infile \in Inputs
          /\ seekable \in BOOLEAN
       \/ /\ email \in EmailArgs
          /\ infile = FromEmail(email)
          /\ seekable = TRUE
    /\ skip_precheck \in BOOLEAN
    /\ toStdout \in BOOLEAN
    /\ pc = "start"
    /\ pos = 0
    /\ cur = << >>
    /\ fld = 0
    /\ count_ok = 0
    /\ count_bad = 0
    /\ count_bound = FALSE
    /\ pbar = [total |-> 0, n |-> 0]
    /\ out = << >>
    /\ stdout = << >>
    /\ stderr = << >>
    /\ reqs = << >>
    /\ slept = 0
    /\ closed = FALSE
    /\ err = ""

\* --------------------------------------------------------------- processFile
\* if infile.seekable() and not skip_precheck: f = csv.reader(infile); count_ok, count_bad = 0, 0
PrecheckStart ==
    /\ pc = "start"
    /\ seekable /\ ~skip_precheck
    /\ count_ok' = 0
    /\ count_bad' = 0
    /\ count_bound' = TRUE
    /\ pc' = "precheck"
    /\ UNCHANGED <<email, infile, seekable, skip_precheck, toStdout, pos, cur, fld, pbar, out,
                   stdout, stderr, reqs, slept, closed, err>>

\* else: eprint('Skipping input file syntax pre-check. ...')
SkipPrecheck ==
    /\ pc = "start"
    /\ ~(seekable /\ ~skip_precheck)
    /\ stderr' = Append(stderr, Diag("skipped", 0, "", BodyEmpty))
    /\ pc' = "open"
    /\ UNCHANGED <<email, infile, seekable, skip_precheck, toStdout, pos, cur, fld, count_ok,
                   count_bad, count_bound, pbar, out, stdout, reqs, slept, closed, err>>

\* for r in f: one iteration of the precheck loop
PrecheckRow ==
    /\ pc = "precheck"
    /\ pos < Len(infile)
    /\ LET r == infile[pos + 1]
           d == CountRow(r)
       IN /\ count_ok' = count_ok + d[1]
          /\ count_bad' = count_bad + d[2]
          /\ stderr' = IF Len(r) = 1 /\ ~isSyntacticallyValid(r[1])
                       THEN Append(stderr, Diag("syntax", pos + 1, r[1], BodyEmpty))
                       ELSE stderr
    /\ pos' = pos + 1
    /\ UNCHANGED <<email, infile, seekable, skip_precheck, toStdout, pc, cur, fld, count_bound,
                   pbar, out, stdout, reqs, slept, closed, err>>

\* PrecheckEnd without infile.seek(0): the input stays at its end.
PrecheckEnd_NoSeek ==
    /\ pc = "precheck"
    /\ pos = Len(infile)
    /\ stderr' = Append(stderr, Diag("scanned", 0, "", BodyEmpty))
    /\ pc' = "open"
    /\ UNCHANGED <<email, infile, seekable, skip_precheck, toStdout, pos, cur, fld, count_ok,
                   count_bad, count_bound, pbar, out, stdout, reqs, slept, closed, err>>

\* the loop is exhausted: eprint('Scanned input ...'); infile.seek(0)
PrecheckEnd ==
    /\ pc = "precheck"
    /\ pos = Len(infile)
    /\ stderr' = Append(stderr, Diag("scanned", 0, "", BodyEmpty))
    /\ pos' = 0
    /\ pc' = "open"
    /\ UNCHANGED <<email, infile, seekable, skip_precheck, toStdout, cur, fld, count_ok, count_bad,
                   count_bound, pbar, out, stdout, reqs, slept, closed, err>>

\* WriteHeader without fh.writeheader().
WriteHeader_Omitted ==
    /\ pc = "open"
    /\ pc' = "call"
    /\ UNCHANGED <<email, infile, seekable, skip_precheck, toStdout, pos, cur, fld, count_ok,
                   count_bad, count_bound, pbar, out, stdout, stderr, reqs, slept, closed, err>>

\* f = csv.reader(infile); fh = csv.DictWriter(...); fh.writeheader()
WriteHeader ==
    /\ pc = "open"
    /\ out' = Append(out, [kind |-> "header", req |-> 0, row |-> HeaderRow])
    /\ stdout' = IF toStdout THEN Append(stdout, "header") ELSE stdout
    /\ pc' = "call"
    /\ UNCHANGED <<email, infile, seekable, skip_precheck, toStdout, pos, cur, fld, count_ok,
                   count_bad, count_bound, pbar, stderr, reqs, slept, closed, err>>

\* validateRecipients(f, fh, apiKey, snooze, count_ok), count_ok assigned:
\* session = FuturesSession(); with tqdm(total=count) as pbar
CallValidate ==
    /\ pc = "call"
    /\ count_bound
    /\ pbar' = [total |-> count_ok, n |-> 0]
    /\ pc' = "records"
    /\ UNCHANGED <<email, infile, seekable, skip_precheck, toStdout, pos, cur, fld, count_ok,
                   count_bad, count_bound, out, stdout, stderr, reqs, slept, closed, err>>

\* the same call when the precheck branch was not taken: count_ok is a local
\* that was never assigned, and reading it raises UnboundLocalError.
CallUnbound ==
    /\ pc = "call"
    /\ ~count_bound
    /\ err' = "UnboundLocalError"
    /\ pc' = "crashed"
    /\ UNCHANGED <<email, infile, seekable, skip_precheck, toStdout, pos, cur, fld, count_ok,
                   count_bad, count_bound, pbar, out, stdout, stderr, reqs, slept, closed>>

\* -------------------------------------------------------- validateRecipients
\* A request as issued by session.get: the record and field it was built from,
\* the address joined to the url, and no response yet.
Pending(rec, f, i) ==
    [rec |-> rec, fld |-> f, addr |-> i, status |-> 0, body |-> BodyEmpty, outcome |-> "pending"]

\* ReadRecord with dispatch gated by the precheck's syntax rule.
ReadRecord_SkipsInvalid ==
    /\ pc = "records"
    /\ pos < Len(infile)
    /\ cur' = SelectSeq(infile[pos + 1], isSyntacticallyValid)
    /\ pos' = pos + 1
    /\ fld' = 0
    /\ pc' = "fields"
    /\ UNCHANGED <<email, infile, seekable, skip_precheck, toStdout, count_ok, count_bad,
                   count_bound, pbar, out, stdout, stderr, reqs, slept, closed, err>>

\* ReadRecord taking address[0] only instead of iterating the record.
ReadRecord_FirstFieldOnly ==
    /\ pc = "records"
    /\ pos < Len(infile)
    /\ cur' = IF infile[pos + 1] = << >> THEN << >> ELSE <<infile[pos + 1][1]>>
    /\ pos' = pos + 1
    /\ fld' = 0
    /\ pc' = "fields"
    /\ UNCHANGED <<email, infile, seekable, skip_precheck, toStdout, count_ok, count_bad,
                   count_bound, pbar, out, stdout, stderr, reqs, slept, closed, err>>

\* for address in f: the reader yields the next record
ReadRecord ==
    /\ pc = "records"
    /\ pos < Len(infile)
    /\ cur' = infile[pos + 1]
    /\ pos' = pos + 1
    /\ fld' = 0
    /\ pc' = "fields"
    /\ UNCHANGED <<email, infile, seekable, skip_precheck, toStdout, count_ok, count_bad,
                   count_bound, pbar, out, stdout, stderr, reqs, slept, closed, err>>

\* SendRequest collecting the futures of a whole record before waiting: the
\* request of the next field is issued while this one is outstanding.
SendRequest_NoAwait ==
    /\ pc = "fields"
    /\ fld < Len(cur)
    /\ reqs' = Append(reqs, Pending(pos, fld + 1, cur[fld + 1]))
    /\ fld' = fld + 1
    /\ pc' = IF fld + 1 < Len(cur) THEN "fields" ELSE "await"
    /\ UNCHANGED <<email, infile, seekable, skip_precheck, toStdout, pos, cur, count_ok, count_bad,
                   count_bound, pbar, out, stdout, stderr, slept, closed, err>>

\* for i in address: thisReq = urljoin(url, i); futures = [session.get(thisReq, headers=h)]
SendRequest ==
    /\ pc = "fields"
    /\ fld < Len(cur)
    /\ reqs' = Append(reqs, Pending(pos, fld + 1, cur[fld + 1]))
    /\ fld' = fld + 1
    /\ pc' = "await"
    /\ UNCHANGED <<email, infile, seekable, skip_precheck, toStdout, pos, cur, count_ok, count_bad,
                   count_bound, pbar, out, stdout, stderr, slept, closed, err>>

\* the inner loop has iterated every field of the record
EndOfRecord ==
    /\ pc = "fields"
    /\ fld = Len(cur)
    /\ pc' = "records"
    /\ UNCHANGED <<email, infile, seekable, skip_precheck, toStdout, pos, cur, fld, count_ok,
                   count_bad, count_bound, pbar, out, stdout, stderr, reqs, slept, closed, err>>

\* Receive with the new row put in front of the rows already written.
Receive_RowFirst(status, body) ==
    LET k == Len(reqs)
        i == reqs[k].addr
        o == Outcome(status, body)
        new == [kind |-> "row", req |-> k, row |-> WriteRow(AttachEmail(body.payload, i))]
    IN /\ reqs' = [reqs EXCEPT ![k] = [@ EXCEPT !.status = status, !.body = body, !.outcome = o]]
       /\ out' = IF o = "row" THEN <<Head(out), new>> \o Tail(out) ELSE out
       /\ stdout' = CASE o = "row" /\ toStdout -> Append(stdout, "row")
                      [] o = "snooze" -> stdout \o <<"status", "snoozing">>
                      [] OTHER -> stdout
       /\ stderr' = IF o = "diag"
                    THEN Append(stderr, Diag("response", 0, "", body))
                    ELSE stderr
       /\ pbar' = IF o \in {"row", "diag"} THEN [pbar EXCEPT !.n = @ + 1] ELSE pbar
       /\ slept' = IF o = "snooze" THEN slept + Cooldown ELSE slept
       /\ err' = IF o \in {"JSONDecodeError", "TypeError"} THEN o ELSE err
       /\ pc' = IF o \in {"JSONDecodeError", "TypeError"} THEN "crashed" ELSE "fields"

\* for future in as_completed(futures): the single future completes with
\* (status, body) and the loop body runs once; the loop over futures then ends
\* and the inner loop moves to the next field.
Receive(status, body) ==
    LET k == Len(reqs)
        i == reqs[k].addr
        o == Outcome(status, body)
    IN /\ reqs' = [reqs EXCEPT ![k] = [@ EXCEPT !.status = status, !.body = body, !.outcome = o]]
       /\ out' = IF o = "row"
                 THEN Append(out, [kind |-> "row", req |-> k,
                                   row |-> WriteRow(AttachEmail(body.payload, i))])
                 ELSE out
       /\ stdout' = CASE o = "row" /\ toStdout -> Append(stdout, "row")
                      [] o = "snooze" -> stdout \o <<"status", "snoozing">>
                      [] OTHER -> stdout
       /\ stderr' = IF o = "diag"
                    THEN Append(stderr, Diag("response", 0, "", body))
                    ELSE stderr
       /\ pbar' = IF o \in {"row", "diag"} THEN [pbar EXCEPT !.n = @ + 1] ELSE pbar
       /\ slept' = IF o = "snooze" THEN slept + Cooldown ELSE slept
       /\ err' = IF o \in {"JSONDecodeError", "TypeError"} THEN o ELSE err
       /\ pc' = IF o \in {"JSONDecodeError", "TypeError"} THEN "crashed" ELSE "fields"

Response ==
    /\ pc = "await"
    /\ \E r \in Responses : Receive(r[1], r[2])
    /\ UNCHANGED <<email, infile, seekable, skip_precheck, toStdout, pos, cur, fld, count_ok,
                   count_bad, count_bound, closed>>

\* the reader is exhausted: the tqdm block and validateRecipients return
EndOfInput ==
    /\ pc = "records"
    /\ pos = Len(infile)
    /\ pc' = "close"
    /\ UNCHANGED <<email, infile, seekable, skip_precheck, toStdout, pos, cur, fld, count_ok,
                   count_bad, count_bound, pbar, out, stdout, stderr, reqs, slept, closed, err>>

\* infile.close(); outfile.close(); eprint('Done'), all of it twice
Close ==
    /\ pc = "close"
    /\ closed' = TRUE
    /\ stderr' = stderr \o <<Diag("done", 0, "", BodyEmpty), Diag("done", 0, "", BodyEmpty)>>
    /\ pc' = "done"
    /\ UNCHANGED <<email, infile, seekable, skip_precheck, toStdout, pos, cur, fld, count_ok,
                   count_bad, count_bound, pbar, out, stdout, reqs, slept, err>>

Next ==
    \/ PrecheckStart
    \/ SkipPrecheck
    \/ PrecheckRow
    \/ PrecheckEnd
    \/ WriteHeader
    \/ CallValidate
    \/ CallUnbound
    \/ ReadRecord
    \/ SendRequest
    \/ EndOfRecord
    \/ Response
    \/ EndOfInput
    \/ Close

Spec == Init /\ [][Next]_vars

\* ---------------------------------------------------------------- properties
\* The rows of the output written for request k.
RowsOf(k) == {j \in 1..Len(out) : out[j].kind = "row" /\ out[j].req = k}

\* Request k was answered with status 200 and a body {"results": {...}}.
Succeeded(k) ==
    /\ reqs[k].status = 200
    /\ reqs[k].body.kind = "object"
    /\ "results" \in reqs[k].body.keys
    /\ reqs[k].body.results = "dict"

\* Requests k and j were built from the same field of the same input record.
SameSlot(k, j) == reqs[k].rec = reqs[j].rec /\ reqs[k].fld = reqs[j].fld

\* The addresses requested so far, in order.
Requested == [k \in 1..Len(reqs) |-> reqs[k].addr]

RECURSIVE Flatten(_)
\* The fields of all records of an input, in reading order.
Flatten(recs) == IF recs = << >> THEN << >> ELSE Head(recs) \o Flatten(Tail(recs))

IsPrefix(s, t) == Len(s) <= Len(t) /\ \A k \in 1..Len(s) : s[k] = t[k]

\* C1: every request answered with a non-200 status is followed, after the
\* cooldown, by a request for the same address, so the run never moves on to
\* another address or finishes while an address's last answer is a non-200.
C1_RetriedUntil200 ==
    \A k \in 1..Len(reqs) :
        reqs[k].outcome = "snooze" =>
            /\ k < Len(reqs) => SameSlot(k, k + 1)
            /\ pc \in {"records", "close", "done"} => k < Len(reqs)

C3_SkipDoesNotFail ==
    (~seekable \/ skip_precheck) => ~(pc = "crashed" /\ reqs = << >>)

\* C4: no non-200 response and no 200 response with a non-JSON body ends the run.
C4_ResponseNeverEndsRun ==
    pc = "crashed" /\ reqs # << >> =>
        ~(reqs[Len(reqs)].status # 200 \/ reqs[Len(reqs)].body.kind = "text")

C7_OneRequestPerRecord ==
    (pc = "done" /\ \A k \in 1..Len(reqs) : reqs[k].status = 200) => Len(reqs) = Len(infile)

\* C7 amended: when every response is a 200, a finished run has issued exactly
\* one request per field of each record (none for a record without fields, two
\* for a record of two fields), each field once; that is one per record when
\* every record has one field.
C7_OneRequestPerField ==
    (pc = "done" /\ \A k \in 1..Len(reqs) : reqs[k].status = 200) =>
        /\ Len(reqs) = Len(Flatten(infile))
        /\ \A r \in 1..Len(infile) :
              Cardinality({k \in 1..Len(reqs) : reqs[k].rec = r}) = Len(infile[r])
        /\ \A k, j \in 1..Len(reqs) : k # j => ~SameSlot(k, j)
        /\ (\A r \in 1..Len(infile) : Len(infile[r]) = 1) => Len(reqs) = Len(infile)

\* A finished all-200 run over a record without fields and one of two fields.
C7_Witness ==
    /\ pc = "done"
    /\ infile = << << >>, <<"a@example.com", "not-an-address">> >>
    /\ Len(reqs) = 2
    /\ \A k \in 1..Len(reqs) : reqs[k].status = 200 /\ reqs[k].rec = 2

\* C8: during and after the precheck scan count_ok + count_bad is the number
\* of records read; ok counts the one-field records that pass the syntax
\* check, bad all others; with only well-formed single addresses bad is 0.
RecordsScanned == IF pc = "precheck" THEN pos ELSE Len(infile)

WellFormed(r) == Len(r) = 1 /\ isSyntacticallyValid(r[1])

C8_PrecheckCounts ==
    count_bound =>
        /\ count_ok + count_bad = RecordsScanned
        /\ count_ok = Cardinality({k \in 1..RecordsScanned : WellFormed(infile[k])})
        /\ count_bad = Cardinality({k \in 1..RecordsScanned : ~WellFormed(infile[k])})
        /\ (\A k \in 1..RecordsScanned : WellFormed(infile[k])) =>
              count_bad = 0 /\ count_ok = RecordsScanned

\* The scan of a well-formed address followed by a two-field row has ended.
C8_Witness ==
    /\ pc = "open" /\ count_bound
    /\ infile = << <<"x@y.com">>, <<"a@example.com", "not-an-address">> >>
    /\ count_ok = 1 /\ count_bad = 1

\* The payload a row was written from.
PayloadOf(j) == reqs[out[j].req].body.payload

\* C9 as stated: every row is the projection of its payload on the fixed
\* columns: a column of the payload holds the payload's value, every other
\* column is empty.
C9_RowIsProjection ==
    \A j \in 1..Len(out) :
        out[j].kind = "row" =>
            \A c \in FieldSet :
                out[j].row[c] = IF c \in DOMAIN PayloadOf(j) THEN CsvStr(PayloadOf(j)[c]) ELSE ""

\* C9 amended: every column other than email holds the payload's value for it
\* (as the csv writer renders it) or the empty string when the payload lacks
\* it, the row has the fixed columns only, and the email column holds the
\* address queried whether or not the payload carries an email.
C9_RowIsProjectionButEmail ==
    \A j \in 1..Len(out) :
        out[j].kind = "row" =>
            /\ DOMAIN out[j].row = FieldSet
            /\ \A c \in FieldSet \ {"email"} :
                  out[j].row[c] = IF c \in DOMAIN PayloadOf(j) THEN CsvStr(PayloadOf(j)[c]) ELSE ""
            /\ out[j].row["email"] = reqs[out[j].req].addr

\* A row written from the payload with a foreign email, a null and an
\* unknown field, and a row written from {"valid": true}.
C9_Witness ==
    \E j, m \in 1..Len(out) :
        /\ out[j].kind = "row" /\ PayloadOf(j) = PayloadFull
        /\ out[j].row["email"] = "x@y.com"
        /\ out[j].row["result"] = "valid" /\ out[j].row["reason"] = "" /\ out[j].row["valid"] = ""
        /\ out[m].kind = "row" /\ PayloadOf(m) = PayloadValid
        /\ out[m].row["valid"] = "True" /\ out[m].row["result"] = ""

\* C10: when the output sink is standard output, standard output holds the
\* header followed by result rows and nothing else.
C10_StdoutIsCsv ==
    toStdout => \A k \in 1..Len(stdout) : stdout[k] = IF k = 1 THEN "header" ELSE "row"

\* Request k has no response yet.
Outstanding(k) == reqs[k].outcome = "pending"

\* The precheck has not finished: processFile is before the csv.reader of line 75.
BeforeDispatch == pc \in {"start", "precheck"}

\* C11: the progress counter is the number of addresses that reached a row or
\* a logged protocol error, it is not advanced by a non-200 attempt, and in a
\* finished run it equals the number of addresses dispatched.
C11_CounterCountsDispatched ==
    /\ pbar.n = Cardinality({k \in 1..Len(reqs) : reqs[k].outcome \in {"row", "diag"}})
    /\ pc = "done" => pbar.n = Len(reqs)

\* C12: nothing is written and no request is issued before the header; from
\* then on the output is one header followed by result rows only.
C12_HeaderOnceFirst ==
    /\ pc \in {"start", "precheck", "open"} => out = << >> /\ reqs = << >>
    /\ pc \notin {"start", "precheck", "open"} =>
          /\ Len(out) >= 1
          /\ out[1].kind = "header" /\ out[1].row = HeaderRow
          /\ \A j \in 2..Len(out) : out[j].kind = "row"
    /\ toStdout /\ stdout # << >> => stdout[1] = "header"

\* Two addresses, a retry notice and a row later, the output is header, row.
C12_Witness ==
    /\ Len(reqs) = 2
    /\ reqs[1].outcome = "snooze" /\ reqs[2].outcome = "row"
    /\ Len(out) = 2 /\ out[1].kind = "header" /\ out[2].kind = "row"

\* The --email value of scenario B.
ScenarioB == <<"x@y.com", "z@y.com">>

\* C13 as stated: with --email "x@y.com,z@y.com" the precheck is skipped and
\* the run issues exactly the requests x@y.com, z@y.com.
C13_EmailSkipsPrecheck ==
    email = ScenarioB =>
        /\ pc # "start" => ~count_bound
        /\ pc = "done" => Requested = ScenarioB

\* C13 amended: with --email and no --skip_precheck the precheck runs on the
\* in-memory source (it is seekable), one record per comma-separated part,
\* the requests issued are always the leading parts in order, and a finished
\* run has requested exactly the parts (2 ok, 0 bad and x@y.com, z@y.com for
\* scenario B).
C13_EmailRunsPrecheck ==
    (email # << >> /\ ~skip_precheck) =>
        /\ pc # "start" => count_bound
        /\ IsPrefix(Requested, email)
        /\ \A k \in 1..Len(reqs) : reqs[k].rec = k /\ reqs[k].fld = 1
        /\ pc = "done" => Requested = email /\ count_ok + count_bad = Len(email)
        /\ (pc = "done" /\ email = ScenarioB) => count_ok = 2 /\ count_bad = 0

C13_Witness ==
    /\ email = ScenarioB /\ ~skip_precheck
    /\ pc = "done"
    /\ count_bound /\ count_ok = 2
    /\ Requested = ScenarioB

\* C14: Done is entered with no request outstanding, the files closed and
\* exactly one completion line logged; no request or row exists before the
\* precheck has finished.
C14_DoneLogsOnce ==
    /\ BeforeDispatch => reqs = << >> /\ out = << >>
    /\ pc = "done" =>
          /\ closed
          /\ \A k \in 1..Len(reqs) : ~Outstanding(k)
          /\ Cardinality({d \in 1..Len(stderr) : stderr[d].kind = "done"}) = 1

\* The input field request k was built from.
FieldOf(k) == infile[reqs[k].rec][reqs[k].fld]

\* C15 as stated: every row written has a non-empty email.
C15_EmailNonEmpty ==
    \A j \in 1..Len(out) : out[j].kind = "row" => out[j].row["email"] # ""

\* C15 amended: every row's email is the input field that was queried,
\* whatever fields the payload has, so it is empty exactly when that field is
\* the empty string.
C15_EmailIsQueriedField ==
    \A j \in 1..Len(out) :
        out[j].kind = "row" =>
            /\ out[j].row["email"] = FieldOf(out[j].req)
            /\ out[j].row["email"] = "" <=> infile[reqs[out[j].req].rec] = <<"">>

\* A row for the record holding "" and a row for a real address.
C15_Witness ==
    \E j, m \in 1..Len(out) :
        /\ out[j].kind = "row" /\ out[j].row["email"] = "" /\ FieldOf(out[j].req) = ""
        /\ out[m].kind = "row" /\ out[m].row["email"] = "a@example.com"
        /\ PayloadOf(m) = PayloadFull

\* C16: at most one request is outstanding, it is the last one issued and the
\* loop is waiting for it; every earlier request was answered and processed,
\* and each non-200 among them was followed by the cooldown.
C16_OneOutstanding ==
    /\ Cardinality({k \in 1..Len(reqs) : Outstanding(k)}) <= 1
    /\ \A k \in 1..Len(reqs) : Outstanding(k) => k = Len(reqs) /\ pc = "await"
    /\ pc = "await" => reqs # << >> /\ Outstanding(Len(reqs))
    /\ \A k \in 1..Len(reqs) :
          k < Len(reqs) => reqs[k].outcome \in {"row", "diag", "snooze"}
    /\ slept = Cooldown * Cardinality({k \in 1..Len(reqs) : reqs[k].outcome = "snooze"})

\* The second field of a record is requested after the first was answered
\* with a non-200 and the cooldown elapsed.
C16_Witness ==
    /\ pc = "await"
    /\ Len(reqs) = 2
    /\ reqs[1].outcome = "snooze" /\ slept = Cooldown
    /\ reqs[1].rec = reqs[2].rec
    /\ Outstanding(2)

\* C17: during the precheck nothing is written, requested or counted as
\* progress; after it the input is at its start, and the dispatch phase reads
\* the same records in the same order, one after the other, to the end.
C17_PrecheckLeavesInput ==
    /\ pc = "precheck" =>
          out = << >> /\ stdout = << >> /\ reqs = << >> /\ pbar = [total |-> 0, n |-> 0]
    /\ count_bound =>
          /\ pc \in {"open", "call"} => pos = 0 /\ reqs = << >> /\ pbar.n = 0
          /\ pc = "open" => out = << >>
          /\ pc \in {"fields", "await"} => pos \in 1..Len(infile) /\ cur = infile[pos]
          /\ pc \in {"close", "done"} => pos = Len(infile)
          /\ \A k \in 1..Len(reqs) :
                /\ reqs[k].rec \in 1..Len(infile)
                /\ reqs[k].fld \in 1..Len(infile[reqs[k].rec])
                /\ reqs[k].addr = FieldOf(k)
                /\ k > 1 => \/ reqs[k].rec > reqs[k - 1].rec
                            \/ reqs[k].rec = reqs[k - 1].rec /\ reqs[k].fld = reqs[k - 1].fld + 1

\* After a scan of two records the dispatch phase is on the first record.
C17_Witness ==
    /\ count_bound
    /\ \E d \in 1..Len(stderr) : stderr[d].kind = "scanned"
    /\ Len(infile) = 2
    /\ pc = "await" /\ pos = 1
    /\ cur = infile[1]
    /\ reqs[1].addr = infile[1][1]

\* The rows of the output, by position.
RowIndexes == {j \in 1..Len(out) : out[j].kind = "row"}

\* C18: rows appear in the order their requests were answered, one per
\* request at most, and each row's email is the input field at its request's
\* position, so the emails of the output are a subsequence of the addresses
\* of the input.
C18_RowsInInputOrder ==
    /\ \A j, m \in RowIndexes : j < m => out[j].req < out[m].req
    /\ \A j \in RowIndexes :
          /\ out[j].req \in 1..Len(Flatten(infile))
          /\ out[j].row["email"] = Flatten(infile)[out[j].req]

\* Three addresses, the middle one without a row: the rows keep input order.
C18_Witness ==
    /\ infile = << <<"a@example.com", "not-an-address">>, <<"x@y.com">> >>
    /\ Len(reqs) = 3 /\ reqs[2].outcome = "diag"
    /\ Len(out) = 3
    /\ out[2].row["email"] = "a@example.com"
    /\ out[3].row["email"] = "x@y.com"

\* C19: the progress counter never exceeds the progress indicator's total.
C19_CounterWithinTotal == pbar.n <= pbar.total

====
